---- MODULE Spec2Model ----
(***************************************************************************)
(* Model of api/serializers/tables.py: TableCreateSerializer (validate,    *)
(* create, update in its full-replace and partial-patch modes) over the    *)
(* stores it reads and writes: tables, columns (TableColumn rows) and      *)
(* entries (rows holding a JSON document keyed by column internal name).   *)
(*                                                                         *)
(* Strings that the code transforms (column names, display names) are      *)
(* sequences of one-character strings, so that snake_case is computed.     *)
(* A Python dict with optional keys is a record with a field keys (the     *)
(* set of keys present); the value of an absent key is a fixed filler.     *)
(***************************************************************************)
EXTENDS Integers, Sequences, FiniteSets, TLC

\* ------------------------------------------------------------------ bounds
\* Requests handled in one behaviour.
MaxCalls == 1

\* ----------------------------------------------------------------- domains
TableIds == {1, 2}
Databases == {1, 2}
TableNames == {"t1", "t2"}
FieldTypes == {"text", "int"}
\* Labels a client submits as name or display_name.
Labels == {<<"a">>, <<"b">>, <<"B", " ">>}
Values == {1, 2}
FilterBlobs == {"f1"}
NoFilters == "{}"
\* Column ids are handed out by a counter that never reuses an id.
ColIds == {1, 2, 3}
EntryIds == {1, 2, 3}
\* How far a full-replace payload is from the table as it is stored: the
\* number of edits (a column dropped, renamed, retyped or added, the table
\* id left out, a table attribute changed) the client made to what it read.
\* A patch body holds as many keys.
EditBudget == {0, 1, 2}

\* Fillers for the value of a key that the dict does not hold.
NoId == 0
NoLabel == <<>>

\* ------------------------------------------------------------ snake_case
Lower(c) ==
  CASE c = "A" -> "a"
    [] c = "B" -> "b"
    [] OTHER -> c

IsSep(c) == c \in {" ", "-", "_", "."}

\* Lower-case every character and turn every run of separators into one "_".
RECURSIVE Collapse(_, _)
Collapse(s, inSep) ==
  IF s = <<>> THEN <<>>
  ELSE IF IsSep(Head(s))
       THEN (IF inSep THEN <<>> ELSE <<"_">>) \o Collapse(Tail(s), TRUE)
       ELSE <<Lower(Head(s))>> \o Collapse(Tail(s), FALSE)

TrimSep(s) ==
  LET n == Len(s)
      lo == IF n > 0 /\ s[1] = "_" THEN 2 ELSE 1
      hi == IF n > 0 /\ s[n] = "_" THEN n - 1 ELSE n
  IN  IF lo > hi THEN <<>> ELSE SubSeq(s, lo, hi)

snake_case(label) == TrimSep(Collapse(label, FALSE))


\* ------------------------------------------------------------------- state
VARIABLES
  tables,    \* table id -> [name, database, active, filters, default_fields]
  columns,   \* column id -> [table, name, display_name, field_type]
  entries,   \* entry id -> [table, data], data: internal name -> value
  nextCol,   \* the id the next created column gets
  calls,     \* requests handled so far
  last,      \* the last request: [op, user, table, data, res, key, out]
  conc,      \* requests in progress: [init, proc], proc: worker -> its locals
  grants     \* the object permissions: a set of [principal, perm, table]

vars == <<tables, columns, entries, nextCol, calls, last, conc, grants>>

\* The stores as one value, so that a handler is a function from stores to
\* stores and its steps compose.
Stores == [tables |-> tables, columns |-> columns, entries |-> entries,
           nextCol |-> nextCol]

Outcome(db, res, key) == [db |-> db, res |-> res, key |-> key]

ColumnsOf(cols, t) == {c \in DOMAIN cols : cols[c].table = t}
EntriesOf(ents, t) == {e \in DOMAIN ents : ents[e].table = t}
NamesOf(cols, t) == {cols[c].name : c \in ColumnsOf(cols, t)}

RECURSIVE SeqToSet(_)
SeqToSet(s) == IF s = <<>> THEN {} ELSE {Head(s)} \cup SeqToSet(Tail(s))

\* ----------------------------------------------------- Meta.validators
\* UniqueTogetherValidator on (name, database); on an update the instance
\* itself is excluded from the queryset.
\* A serializer without the validator.
NoValidators(tbls, name, database, instance) == TRUE

UniqueTogether(tbls, name, database, instance) ==
  ~ \E t \in DOMAIN tbls \ {instance} :
      tbls[t].name = name /\ tbls[t].database = database

\* ---------------------------------------------------------------- validate
\* Lines 83-93: the first submitted column (in order) that carries an id and
\* whose stored field_type differs raises ValidationError keyed by its id; an
\* unknown id raises DoesNotExist out of is_valid() ("lookup_failed").
RECURSIVE CheckFieldTypes(_, _)
CheckFieldTypes(fields, cols) ==
  IF fields = <<>> THEN [res |-> "ok", key |-> NoId]
  ELSE LET field == Head(fields) IN
       IF "id" \notin field.keys THEN CheckFieldTypes(Tail(fields), cols)
       ELSE IF field.id \notin DOMAIN cols
            THEN [res |-> "lookup_failed", key |-> NoId]
       ELSE IF cols[field.id].field_type # field.field_type
            THEN [res |-> "type_locked", key |-> field.id]
       ELSE CheckFieldTypes(Tail(fields), cols)

validate(data, db) ==
  IF "id" \notin data.keys THEN [res |-> "ok", key |-> NoId]
  ELSE IF data.id \notin DOMAIN db.tables
       THEN [res |-> "lookup_failed", key |-> NoId]
  ELSE IF EntriesOf(db.entries, data.id) = {} THEN [res |-> "ok", key |-> NoId]
  ELSE IF "fields" \notin data.keys THEN [res |-> "ok", key |-> NoId]
  ELSE CheckFieldTypes(data.fields, db.columns)

\* ------------------------------------------------------------------ create
\* Lines 103-107: fill in the missing one of name / display_name.  A spec
\* with neither key raises KeyError at line 104.
CanName(i) == "display_name" \in i.keys \/ "name" \in i.keys

\* A naming that would store the submitted label as the internal name.
UnderivedColumn(i) ==
  LET i1 == IF "display_name" \notin i.keys
            THEN [i EXCEPT !.display_name = i.name,
                           !.keys = @ \cup {"display_name"}]
            ELSE i
  IN  IF "name" \notin i1.keys
      THEN [i1 EXCEPT !.name = i1.display_name, !.keys = @ \cup {"name"}]
      ELSE i1

NamedColumn(i) ==
  LET i1 == IF "display_name" \notin i.keys
            THEN [i EXCEPT !.display_name = i.name,
                           !.name = snake_case(i.name),
                           !.keys = @ \cup {"display_name"}]
            ELSE i
  IN  IF "name" \notin i1.keys
      THEN [i1 EXCEPT !.name = snake_case(i1.display_name),
                      !.keys = @ \cup {"name"}]
      ELSE i1

\* TableColumn.objects.create(table=..., **i)
NewColumn(t, i) ==
  [table |-> t, name |-> i.name, display_name |-> i.display_name,
   field_type |-> i.field_type]

\* An insert that would store the display name as the internal name.
InsertUnderived(db, row) ==
  [db EXCEPT !.columns = [c \in DOMAIN db.columns \cup {db.nextCol} |->
                            IF c = db.nextCol
                            THEN [row EXCEPT !.name = row.display_name]
                            ELSE db.columns[c]],
             !.nextCol = @ + 1]

InsertColumn(db, row) ==
  [db EXCEPT !.columns = [c \in DOMAIN db.columns \cup {db.nextCol} |->
                            IF c = db.nextCol THEN row ELSE db.columns[c]],
             !.nextCol = @ + 1]

\* Lines 102-109, in submission order; a KeyError leaves the table and the
\* columns created so far in place.
RECURSIVE CreateColumns(_, _, _)
CreateColumns(db, t, temp_fields) ==
  IF temp_fields = <<>> THEN Outcome(db, "ok", NoId)
  ELSE LET i == Head(temp_fields) IN
       IF ~CanName(i) THEN Outcome(db, "key_error", NoId)
       ELSE CreateColumns(InsertColumn(db, NewColumn(t, NamedColumn(i))),
                          t, Tail(temp_fields))

NewTableId(db) == Cardinality(DOMAIN db.tables) + 1

\* Table.objects.create(**validated_data)
NewTable(data) ==
  [name |-> data.name, database |-> data.database, active |-> data.active,
   filters |-> NoFilters, default_fields |-> {}]

InsertTable(db, row) ==
  [db EXCEPT !.tables = [t \in DOMAIN db.tables \cup {NewTableId(db)} |->
                           IF t = NewTableId(db) THEN row ELSE db.tables[t]]]

\* is_valid() (the Meta validators, then validate) followed by create().
create(data, db) ==
  IF ~UniqueTogether(db.tables, data.name, data.database, NoId)
  THEN Outcome(db, "not_unique", NoId)
  ELSE LET v == validate(data, db) IN
       IF v.res # "ok" THEN Outcome(db, v.res, v.key)
       ELSE CreateColumns(InsertTable(db, NewTable(data)), NewTableId(db),
                          IF "fields" \in data.keys THEN data.fields ELSE <<>>)

\* ----------------------------------------------------- update, full replace
\* del entry.data[k]
DropKey(doc, k) == [x \in DOMAIN doc \ {k} |-> doc[x]]

\* entry.data[new] = entry.data[old]; del entry.data[old]
MoveKey(doc, old, new) ==
  DropKey([x \in DOMAIN doc \cup {new} |->
             IF x = new THEN doc[old] ELSE doc[x]], old)

\* instance.entries.all() is walked in ascending id; the walk raises KeyError
\* at the first entry whose document lacks k, the entries before it saved.
Reached(ents, t, k) ==
  {e \in EntriesOf(ents, t) :
     \A b \in EntriesOf(ents, t) : k \notin DOMAIN ents[b].data => e < b}

Completed(ents, t, k) ==
  \A e \in EntriesOf(ents, t) : k \in DOMAIN ents[e].data

\* Lines 144-146.
RemoveKeyLoop(ents, t, field_name) ==
  [e \in DOMAIN ents |->
     IF e \in Reached(ents, t, field_name)
     THEN [ents[e] EXCEPT !.data = DropKey(@, field_name)]
     ELSE ents[e]]

\* Lines 155-158.
RenameKeyLoop(ents, t, old_name, new_name) ==
  [e \in DOMAIN ents |->
     IF e \in Reached(ents, t, old_name)
     THEN [ents[e] EXCEPT !.data = MoveKey(@, old_name, new_name)]
     ELSE ents[e]]

\* field.delete(): the row goes, and with it its rows in the default_fields
\* many-to-many relation.
DeleteColumn(db, id) ==
  [db EXCEPT !.columns = [c \in DOMAIN db.columns \ {id} |-> db.columns[c]],
             !.tables = [t \in DOMAIN db.tables |->
                           [db.tables[t] EXCEPT !.default_fields = @ \ {id}]]]

\* Lines 140-146, the ids to remove taken in the sequence order.
RECURSIVE RemoveFields(_, _, _)
RemoveFields(db, t, order) ==
  IF order = <<>> THEN Outcome(db, "ok", NoId)
  ELSE LET id_to_remove == Head(order)
           field_name == db.columns[id_to_remove].name
           db1 == DeleteColumn(db, id_to_remove)
           db2 == [db1 EXCEPT !.entries = RemoveKeyLoop(@, t, field_name)]
       IN  IF Completed(db.entries, t, field_name)
           THEN RemoveFields(db2, t, Tail(order))
           ELSE Outcome(db2, "key_error", NoId)

\* field_obj.__dict__.update(field): every key of the submitted dict
\* overwrites the attribute of that name.
MergeColumn(field_obj, field) ==
  [field_obj EXCEPT
     !.name = IF "name" \in field.keys THEN field.name ELSE @,
     !.display_name = IF "display_name" \in field.keys
                      THEN field.display_name ELSE @,
     !.field_type = field.field_type]

\* Lines 148-165, in submission order.
RECURSIVE SaveFields(_, _, _)
SaveFields(db, t, fields) ==
  IF fields = <<>> THEN Outcome(db, "ok", NoId)
  ELSE LET field == Head(fields) IN
       IF "id" \in field.keys
       THEN IF field.id \notin DOMAIN db.columns
            THEN Outcome(db, "not_found", NoId)
            ELSE IF "name" \notin field.keys
            THEN Outcome(db, "key_error", NoId)
            ELSE LET field_obj == db.columns[field.id]
                     old_name == field_obj.name
                     new_name == field.name
                     db1 == IF old_name # new_name
                            THEN [db EXCEPT !.entries =
                                    RenameKeyLoop(@, t, old_name, new_name)]
                            ELSE db
                     db2 == [db1 EXCEPT !.columns[field.id] =
                                          MergeColumn(field_obj, field)]
                 IN  IF old_name # new_name
                        /\ ~Completed(db.entries, t, old_name)
                     THEN Outcome(db1, "key_error", NoId)
                     ELSE SaveFields(db2, t, Tail(fields))
       ELSE IF "display_name" \notin field.keys
            THEN Outcome(db, "key_error", NoId)
            ELSE SaveFields(
                   InsertColumn(db,
                     [table |-> t,
                      name |-> snake_case(field.display_name),
                      display_name |-> field.display_name,
                      field_type |-> field.field_type]),
                   t, Tail(fields))

\* Lines 138-139.
old_fields_ids(db, t) == ColumnsOf(db.columns, t)
new_fields_ids(data) ==
  {IF "id" \in x.keys THEN x.id ELSE NoId : x \in SeqToSet(data.fields)}

\* Lines 132-134 and 167: instance.save() writes the attributes set at the
\* top of the branch.
SaveInstance(db, t, data) ==
  [db EXCEPT !.tables[t].name = data.name,
             !.tables[t].active = data.active,
             !.tables[t].database = data.database]

\* A full replace that would leave the removals out.
ReplaceWithoutRemovals(db, t, data, order) ==
  LET r == SaveFields(db, t, IF "fields" \in data.keys THEN data.fields
                              ELSE <<>>)
  IN  IF r.res # "ok" THEN r
      ELSE Outcome(SaveInstance(r.db, t, data), "ok", NoId)

\* A full replace that would write the table row before the cascades.
ReplaceSavingFirst(db, t, data, order) ==
  IF "fields" \notin data.keys
  THEN Outcome(SaveInstance(db, t, data), "ok", NoId)
  ELSE LET r1 == RemoveFields(SaveInstance(db, t, data), t, order) IN
       IF r1.res # "ok" THEN r1
       ELSE SaveFields(r1.db, t, data.fields)

\* Lines 132-167; order is the order in which the set difference of line 140
\* is walked.
FullReplace(db, t, data, order) ==
  IF "fields" \notin data.keys
  THEN Outcome(SaveInstance(db, t, data), "ok", NoId)
  ELSE LET r1 == RemoveFields(db, t, order) IN
       IF r1.res # "ok" THEN r1
       ELSE LET r2 == SaveFields(r1.db, t, data.fields) IN
            IF r2.res # "ok" THEN r2
            ELSE Outcome(SaveInstance(r2.db, t, data), "ok", NoId)

\* ---------------------------------------------------- update, partial patch
\* A patch that would store whatever blob is supplied, an empty one too.
PatchAnyFilters(db, t, data) ==
  IF "filters" \in data.keys
  THEN [db EXCEPT !.tables[t].filters = data.filters]
  ELSE db

\* Lines 115-118: a falsy blob (absent or empty) leaves the stored one.
PatchFilters(db, t, data) ==
  IF "filters" \in data.keys /\ data.filters # NoFilters
  THEN [db EXCEPT !.tables[t].filters = data.filters]
  ELSE db

\* A patch that would set the relation to the submitted references.
SetDefaultFields(db, t, data) ==
  IF "default_fields" \in data.keys
  THEN [db EXCEPT !.tables[t].default_fields = data.default_fields]
  ELSE db

\* Lines 120-124: instance.default_fields.add(field) for each submitted one.
PatchDefaultFields(db, t, data) ==
  IF "default_fields" \in data.keys
  THEN [db EXCEPT !.tables[t].default_fields = @ \cup data.default_fields]
  ELSE db

\* Lines 127-128.
PatchActive(db, t, data) ==
  IF "active" \in data.keys
  THEN [db EXCEPT !.tables[t].active = data.active]
  ELSE db

\* A patch that would also run the column loop of the full replace and
\* write the submitted name and database.
PatchWithSchema(db, t, data) ==
  LET r == SaveFields(db, t, IF "fields" \in data.keys THEN data.fields
                              ELSE <<>>)
      named == [r.db EXCEPT
                  !.tables[t].name = IF "name" \in data.keys THEN data.name
                                     ELSE @,
                  !.tables[t].database = IF "database" \in data.keys
                                         THEN data.database ELSE @]
  IN  Outcome(PatchActive(PatchDefaultFields(PatchFilters(named, t, data),
                                             t, data), t, data), "ok", NoId)

\* Lines 114-130.
PartialPatch(db, t, data) ==
  Outcome(PatchActive(PatchDefaultFields(PatchFilters(db, t, data), t, data),
                      t, data), "ok", NoId)

\* ------------------------------------------------------------ is_valid()
\* Field validation of the related keys (PrimaryKeyRelatedField: the
\* submitted default_fields must be existing columns), the Meta validators,
\* then validate().  On a partial update the validator takes a name or
\* database the payload lacks from the instance.
UpdateValid(db, t, data, partial) ==
  LET name == IF "name" \in data.keys THEN data.name ELSE db.tables[t].name
      database == IF "database" \in data.keys THEN data.database
                  ELSE db.tables[t].database
  IN  IF "default_fields" \in data.keys
         /\ ~(data.default_fields \subseteq DOMAIN db.columns)
      THEN [res |-> "invalid_pk", key |-> NoId]
      ELSE IF ~UniqueTogether(db.tables, name, database, t)
      THEN [res |-> "not_unique", key |-> NoId]
      ELSE validate(data, db)

update(db, t, data, partial, order) ==
  LET v == UpdateValid(db, t, data, partial) IN
  IF v.res # "ok" THEN Outcome(db, v.res, v.key)
  ELSE IF partial THEN PartialPatch(db, t, data)
  ELSE FullReplace(db, t, data, order)

\* ------------------------------------------------------------------ inputs
\* A column dict of a "fields" list.
ColumnSpec(keys, id, name, display_name, field_type) ==
  [keys |-> keys, id |-> id, name |-> name, display_name |-> display_name,
   field_type |-> field_type]

\* The request body after field validation (validated_data).
Payload(keys, id, name, database, active, fields, filters, default_fields) ==
  [keys |-> keys, id |-> id, name |-> name, database |-> database,
   active |-> active, fields |-> fields, filters |-> filters,
   default_fields |-> default_fields]

NoPayload == Payload({}, NoId, "", 0, FALSE, <<>>, NoFilters, {})

SeqsUpTo(S, n) == UNION {[1..k -> S] : k \in 0..n}

\* Column dicts of a create call: display_name, name, both, or neither.
CreateSpecs ==
  {ColumnSpec({"display_name"}, NoId, NoLabel, dn, "text") :
     dn \in {<<"a">>, <<"B", " ">>}}
  \cup {ColumnSpec({"name"}, NoId, name, NoLabel, "int") :
          name \in {<<"a">>, <<"B", " ">>}}
  \cup {ColumnSpec({"name", "display_name"}, NoId, <<"a">>, <<"B", " ">>, "text"),
        ColumnSpec({"name", "display_name"}, NoId, <<"B", " ">>, <<"b">>, "int"),
        ColumnSpec({}, NoId, NoLabel, NoLabel, "text")}

CreatePayloads ==
  {Payload({"name", "database", "active", "fields"}, NoId, name, database,
           TRUE, fields, NoFilters, {}) :
     name \in TableNames, database \in Databases,
     fields \in SeqsUpTo(CreateSpecs, 2)}
  \cup
  {Payload({"name", "database", "active"}, NoId, name, database,
           FALSE, <<>>, NoFilters, {}) :
     name \in TableNames, database \in Databases}

\* --- full replace: the table as the client read it, edited
OtherType(ft) == IF ft = "text" THEN "int" ELSE "text"

\* What the client does with a column it read: leave it out, or resubmit
\* it under a name (its own or another) with its field_type kept or changed.
ColumnEdits(col) ==
  {<<"omit", col.name, FALSE>>}
  \cup {<<"put", l, r>> : l \in Labels \cup {col.name}, r \in BOOLEAN}

EditedSpec(id, col, e) ==
  ColumnSpec({"id", "name", "display_name"}, id, e[2], col.display_name,
             IF e[3] THEN OtherType(col.field_type) ELSE col.field_type)

\* One more column dict at the end of the list: a new column (with or
\* without a name of its own, or without a display_name), or the id of a
\* column the table does not own.
ExtraSpecs(cols, t) ==
  {ColumnSpec({"display_name"}, NoId, NoLabel, <<"B", " ">>, "text"),
   ColumnSpec({"name", "display_name"}, NoId, <<"B", " ">>, <<"a">>, "text"),
   ColumnSpec({"name"}, NoId, <<"a">>, NoLabel, "text")}
  \cup {ColumnSpec({"id", "name"}, id, name, NoLabel, "text") :
          id \in ColIds \ ColumnsOf(cols, t), name \in {<<"a">>, <<"b">>}}

RECURSIVE SortedIds(_)
SortedIds(S) ==
  IF S = {} THEN <<>>
  ELSE LET m == CHOOSE x \in S : \A y \in S : x <= y
       IN  <<m>> \o SortedIds(S \ {m})

RECURSIVE EditedList(_, _, _)
EditedList(ids, cols, choice) ==
  IF ids = <<>> THEN <<>>
  ELSE LET id == Head(ids) IN
       (IF choice[id][1] = "omit" THEN <<>>
        ELSE <<EditedSpec(id, cols[id], choice[id])>>)
       \o EditedList(Tail(ids), cols, choice)

\* The choices of a client for the columns of table t, one per column.
ColumnChoices(db, t) ==
  LET mine == ColumnsOf(db.columns, t)
  IN  {c \in [mine -> UNION {ColumnEdits(db.columns[m]) : m \in mine}] :
         \A m \in mine : c[m] \in ColumnEdits(db.columns[m])}

ExtraLists(db, t) == {<<>>} \cup {<<x>> : x \in ExtraSpecs(db.columns, t)}

\* The edits between the stored table and a payload: columns left out,
\* names and types changed; the table id left out, name, database or active
\* changed; column dicts added.
ColumnEditCount(db, t, choice) ==
  LET mine == ColumnsOf(db.columns, t)
  IN  Cardinality({m \in mine : choice[m][1] = "omit"})
      + Cardinality({m \in mine : choice[m][1] = "put"
                                    /\ choice[m][2] # db.columns[m].name})
      + Cardinality({m \in mine : choice[m][3]})

AttributeEditCount(row, idKey, name, database, active) ==
  (IF idKey = {} THEN 1 ELSE 0)
  + (IF name = row.name THEN 0 ELSE 1)
  + (IF database = row.database THEN 0 ELSE 1)
  + (IF active = row.active THEN 0 ELSE 1)

ReplacePayload(db, t, idKey, name, database, active, choice, extra) ==
  Payload({"name", "database", "active", "fields"} \cup idKey,
          IF idKey = {} THEN NoId ELSE t, name, database, active,
          EditedList(SortedIds(ColumnsOf(db.columns, t)), db.columns, choice)
            \o extra,
          NoFilters, {})

\* --- partial patch
PatchPayloads(t) ==
  {Payload(keys, IF "id" \in keys THEN t ELSE NoId,
           IF "name" \in keys THEN name ELSE "",
           IF "database" \in keys THEN database ELSE 0,
           IF "active" \in keys THEN active ELSE FALSE,
           IF "fields" \in keys
           THEN <<ColumnSpec({"id", "name"}, 1, <<"b">>, NoLabel, "text")>>
           ELSE <<>>,
           IF "filters" \in keys THEN filters ELSE NoFilters,
           IF "default_fields" \in keys THEN df ELSE {}) :
     keys \in {k \in SUBSET {"id", "name", "database", "fields", "filters",
                             "default_fields", "active"} :
                Cardinality(k) \in EditBudget},
     name \in TableNames, database \in Databases, active \in BOOLEAN, filters \in FilterBlobs \cup {NoFilters},
     df \in {{}, {1}, {2}, {1, 3}}}

\* The columns a payload would create.
NewCount(data) ==
  Cardinality({i \in DOMAIN data.fields : "id" \notin data.fields[i].keys})

Perms(S) ==
  {s \in [1..Cardinality(S) -> S] : \A x \in S : \E i \in DOMAIN s : s[i] = x}

\* --------------------------------------------------------------- read side
\* values_list("name", flat=True).order_by("id") over the columns ids.
NamesById(cols, ids) ==
  [i \in 1..Cardinality(ids) |-> cols[SortedIds(ids)[i]].name]

\* A read that would always list every column of the table.
AllFieldNames(db, t) == NamesById(db.columns, ColumnsOf(db.columns, t))

\* Lines 212-215.
get_default_fields(db, t) ==
  IF db.tables[t].default_fields # {}
  THEN NamesById(db.columns, db.tables[t].default_fields)
  ELSE NamesById(db.columns, ColumnsOf(db.columns, t))

\* ------------------------------------------------------------- init states
\* Stores the program is in after some requests.  Nothing yet; or table 1
\* with columns 1 and 2 (created with {name: "a"} and {display_name: "B "},
\* or the second with the name "a" too); or tables 1 and 2 with one column
\* each.  Entries hold a value for every column, except that an entry older
\* than column 2 (added by a later full replace) holds none for it.  A patch
\* may have stored a filters blob.
SeedTables(ids, df) ==
  [t \in ids |->
     [name |-> IF t = 1 THEN "t1" ELSE "t2", database |-> 1, active |-> TRUE,
      filters |-> NoFilters, default_fields |-> IF t = 1 THEN df ELSE {}]]

SeedColumns(t2, n2) ==
  [c \in {1, 2} |->
     IF c = 1
     THEN [table |-> 1, name |-> <<"a">>, display_name |-> <<"a">>,
           field_type |-> "int"]
     ELSE [table |-> t2, name |-> n2,
           display_name |-> <<"B", " ">>, field_type |-> "text"]]

SeedEntry(cols, t) ==
  [table |-> t, data |-> [n \in NamesOf(cols, t) |-> IF n = <<"a">> THEN 1 ELSE 2]]

OldEntry == [table |-> 1, data |-> [n \in {<<"a">>} |-> 2]]

Seed(ids, df, t2, n2, ents) ==
  [tables |-> SeedTables(ids, df), columns |-> SeedColumns(t2, n2),
   entries |-> ents, nextCol |-> 3]

Seeds ==
  LET one == SeedColumns(1, <<"b">>)
      dup == SeedColumns(1, <<"a">>)
      two == SeedColumns(2, <<"b">>)
      same == SeedColumns(2, <<"a">>)
  IN  {[tables |-> <<>>, columns |-> <<>>, entries |-> <<>>, nextCol |-> 1]}
      \cup {Seed({1}, {}, 1, <<"b">>, ents) :
              ents \in {<<>>, <<SeedEntry(one, 1)>>,
                        <<OldEntry, SeedEntry(one, 1)>>,
                        <<SeedEntry(one, 1), OldEntry>>}}
      \cup {[Seed({1}, {}, 1, <<"b">>, <<>>) EXCEPT
               !.tables = [t \in {1} |-> [@[t] EXCEPT !.filters = "f1"]]]}
      \cup {Seed({1}, {1}, 1, <<"b">>, <<SeedEntry(one, 1)>>),
            Seed({1}, {}, 1, <<"a">>, <<SeedEntry(dup, 1)>>),
            Seed({1, 2}, {}, 2, <<"a">>,
                 <<SeedEntry(same, 1), SeedEntry(same, 2)>>)}
      \cup {Seed({1, 2}, {}, 2, <<"b">>, ents) :
              ents \in {<<SeedEntry(two, 1)>>, <<SeedEntry(two, 2)>>,
                        <<SeedEntry(two, 1), SeedEntry(two, 2)>>}}

\* ------------------------------------------------------------- permissions
Users == {"u1", "u2"}
NoUser == "nobody"
AdminGroup == "admin"
Actions == {"view_table", "change_table", "delete_table", "update_content"}

\* The user whose requests Spec follows, and who created the stored tables.
Creator == "u1"

\* The groups of a user: u1 is an administrator, u2 is not.
GroupsOf(u) == IF u = "u1" THEN {AdminGroup} ELSE {}

\* A map that would name the request user alone.
UserOnlyMap(current_user, created) ==
  [a \in Actions |-> {current_user}]

\* Lines 170-179.
get_permissions_map(current_user, created) ==
  [a \in Actions |-> {current_user, AdminGroup}]

\* The mixin assigns every permission of the map to each of its principals,
\* on the saved table.
Assigned(map, t) ==
  UNION {{[principal |-> p, perm |-> a, table |-> t] : p \in map[a]} :
           a \in DOMAIN map}

\* ObjectPermissionChecker(user).get_perms(obj): the permissions the user
\* holds on the table, directly or through a group.
get_perms(g, user, t) ==
  {a \in Actions :
     \E p \in {user} \cup GroupsOf(user) :
       [principal |-> p, perm |-> a, table |-> t] \in g}

\* A resolution that would look for view_table first.
ViewFirst(g, user, t) ==
  IF user = NoUser THEN <<"">>
  ELSE LET user_perms == get_perms(g, user, t) IN
       IF "view_table" \in user_perms THEN <<"view_table">>
       ELSE IF "update_content" \in user_perms THEN <<"update_content">>
       ELSE IF "change_table" \in user_perms THEN <<"change_table">>
       ELSE <<"">>

\* Lines 220-236.
get_current_user_permissions(g, user, t) ==
  IF user = NoUser THEN <<"">>
  ELSE LET user_perms == get_perms(g, user, t) IN
       IF "change_table" \in user_perms THEN <<"change_table">>
       ELSE IF "update_content" \in user_perms THEN <<"update_content">>
       ELSE IF "view_table" \in user_perms THEN <<"view_table">>
       ELSE <<"">>

\* The stored tables were created by Creator.
SeedGrants(ids) ==
  UNION {Assigned(get_permissions_map(Creator, TRUE), t) : t \in ids}

\* ----------------------------------------------------------------- actions
NoRequest ==
  [op |-> "none", user |-> NoUser, table |-> NoId, data |-> NoPayload,
   res |-> "ok", key |-> NoId, out |-> <<>>]

\* No request is in progress: every handler runs to its end in one step.
NoConc == [init |-> <<>>, proc |-> <<>>]

\* The request of user u has run; ObjectPermissionsAssignmentMixin.save()
\* assigns the permissions map once create() or update() has returned.
Commit(op, t, data, r, u) ==
  /\ tables' = r.db.tables
  /\ columns' = r.db.columns
  /\ entries' = r.db.entries
  /\ nextCol' = r.db.nextCol
  /\ calls' = calls + 1
  /\ last' = [op |-> op, user |-> u, table |-> t, data |-> data,
              res |-> r.res, key |-> r.key, out |-> <<>>]
  /\ grants' = IF r.res = "ok"
               THEN grants \cup Assigned(get_permissions_map(u, op = "create"), t)
               ELSE grants
  /\ UNCHANGED conc

Init ==
  /\ \E seed \in Seeds :
       /\ tables = seed.tables
       /\ columns = seed.columns
       /\ entries = seed.entries
       /\ nextCol = seed.nextCol
  /\ calls = 0
  /\ last = NoRequest
  /\ conc = NoConc
  /\ grants = SeedGrants(DOMAIN tables)

Create ==
  /\ calls < MaxCalls
  /\ \E data \in CreatePayloads :
    /\ NewTableId(Stores) \in TableIds
    /\ nextCol + NewCount(data) - 1 \in ColIds \cup {0}
    /\ Commit("create", NewTableId(Stores), data, create(data, Stores),
              Creator)

Replace ==
  /\ calls < MaxCalls
  /\ \E t \in DOMAIN tables :
     \E choice \in ColumnChoices(Stores, t) :
       /\ ColumnEditCount(Stores, t, choice) \in EditBudget
       /\ \E idKey \in {{}, {"id"}}, name \in TableNames,
             database \in Databases, active \in BOOLEAN :
            /\ ColumnEditCount(Stores, t, choice)
                 + AttributeEditCount(tables[t], idKey, name, database, active)
                 \in EditBudget
            /\ \E extra \in ExtraLists(Stores, t) :
                 /\ ColumnEditCount(Stores, t, choice)
                      + AttributeEditCount(tables[t], idKey, name, database,
                                           active)
                      + Len(extra) \in EditBudget
                 /\ LET data == ReplacePayload(Stores, t, idKey, name,
                                               database, active, choice, extra)
                    IN  /\ nextCol + NewCount(data) - 1
                             \in ColIds \cup {nextCol - 1}
                        /\ \E order \in Perms(old_fields_ids(Stores, t)
                                                 \ new_fields_ids(data)) :
                             Commit("replace", t, data,
                                    update(Stores, t, data, FALSE, order),
                                    Creator)

Patch ==
  /\ calls < MaxCalls
  /\ \E t \in DOMAIN tables :
    \E data \in PatchPayloads(t) :
      Commit("patch", t, data, update(Stores, t, data, TRUE, <<>>), Creator)

\* The entry API stores a document with a value for every column.
AddEntry ==
  /\ calls < MaxCalls
  /\ \E t \in DOMAIN tables :
    /\ Cardinality(DOMAIN entries) + 1 \in EntryIds
    /\ \E data \in [NamesOf(columns, t) -> Values] :
         /\ entries' = [e \in DOMAIN entries \cup {Cardinality(DOMAIN entries) + 1} |->
                          IF e \in DOMAIN entries THEN entries[e]
                          ELSE [table |-> t, data |-> data]]
         /\ calls' = calls + 1
         /\ last' = [op |-> "entry", user |-> Creator, table |-> t,
                     data |-> NoPayload, res |-> "ok", key |-> NoId,
                     out |-> <<>>]
         /\ UNCHANGED <<tables, columns, nextCol, conc, grants>>

\* A table is read through TableSerializer.
Read ==
  /\ calls < MaxCalls
  /\ \E t \in DOMAIN tables :
       last' = [op |-> "read", user |-> Creator, table |-> t,
                data |-> NoPayload, res |-> "ok", key |-> NoId,
                out |-> get_default_fields(Stores, t)]
  /\ calls' = calls + 1
  /\ UNCHANGED <<tables, columns, entries, nextCol, conc, grants>>

Next == Create \/ Replace \/ Patch \/ AddEntry \/ Read

Spec == Init /\ [][Next]_vars

\* ------------------------------------------- full replace, statement by
\* statement: two workers serve full-replace requests on the stored tables,
\* each database statement of update() a step of its own.  No transaction
\* and no lock surrounds the statements.
Workers == {1, 2}

NoColumn ==
  [table |-> NoId, name |-> NoLabel, display_name |-> NoLabel,
   field_type |-> "text"]

\* The locals of a worker: its place, the request (table, validated_data),
\* the ids still to remove, field_name / old_name, the rows the entry
\* queryset returned and the ones the loop has still to visit, the column
\* dicts still to handle, field_obj, the outcome, and the workers that had
\* finished when this one was called.
Idle ==
  [pc |-> "idle", table |-> NoId, data |-> NoPayload, todo |-> <<>>,
   field_name |-> NoLabel, rows |-> <<>>, left |-> <<>>, rest |-> <<>>,
   field_obj |-> NoColumn, res |-> "none", after |-> {}]

Local(w) == conc.proc[w]

Goto(w, rec) == conc' = [conc EXCEPT !.proc[w] = rec]

Raise(w, res) == Goto(w, [Local(w) EXCEPT !.pc = "done", !.res = res])

\* A queryset that would return the documents as they were when the workers
\* started.
QuerysetAtStart(ents, t) ==
  [e \in EntriesOf(ents, t) |-> conc.init.entries[e].data]

\* instance.entries.all(), evaluated when the for loop starts: the documents
\* as stored at that moment.
Queryset(ents, t) == [e \in EntriesOf(ents, t) |-> ents[e].data]

\* The payloads of a worker's request: the table as stored, with at most one
\* column left out, renamed or retyped, or one column dict added.
ConcPayloads(db, t) ==
  {ReplacePayload(db, t, {"id"}, db.tables[t].name, db.tables[t].database,
                  db.tables[t].active, edit[1], edit[2]) :
     edit \in {x \in ColumnChoices(db, t) \X ExtraLists(db, t) :
                 ColumnEditCount(db, t, x[1]) + Len(x[2]) \in {0, 1}}}

\* The view calls is_valid() and then update(); lines 132-135 set the
\* attributes on the instance in memory.
Call(w) ==
  /\ Local(w).pc = "idle"
  /\ \E t \in DOMAIN tables :
     \E data \in ConcPayloads(Stores, t) :
       LET v == UpdateValid(Stores, t, data, FALSE)
           called == [Local(w) EXCEPT
                       !.table = t, !.data = data,
                       !.after = {x \in Workers : Local(x).pc = "done"}]
       IN  Goto(w, IF v.res # "ok"
                   THEN [called EXCEPT !.pc = "done", !.res = v.res]
                   ELSE [called EXCEPT !.pc = "ids"])
  /\ UNCHANGED <<tables, columns, entries, nextCol, calls, last, grants>>

\* Lines 138-140: the ids to remove, in the order the set is walked.
ReadIds(w) ==
  /\ Local(w).pc = "ids"
  /\ \E order \in Perms(old_fields_ids(Stores, Local(w).table)
                           \ new_fields_ids(Local(w).data)) :
       Goto(w, [Local(w) EXCEPT !.todo = order, !.pc = "remove"])
  /\ UNCHANGED <<tables, columns, entries, nextCol, calls, last, grants>>

\* Lines 140-142: the next id to remove, or on to the column dicts.
RemoveGet(w) ==
  /\ Local(w).pc = "remove"
  /\ IF Local(w).todo = <<>>
     THEN Goto(w, [Local(w) EXCEPT !.pc = "fields",
                                   !.rest = Local(w).data.fields])
     ELSE IF Head(Local(w).todo) \notin DOMAIN columns
     THEN Raise(w, "not_found")
     ELSE Goto(w, [Local(w) EXCEPT
                     !.field_name = columns[Head(Local(w).todo)].name,
                     !.pc = "delete"])
  /\ UNCHANGED <<tables, columns, entries, nextCol, calls, last, grants>>

\* Line 143.
RemoveDelete(w) ==
  /\ Local(w).pc = "delete"
  /\ tables' = DeleteColumn(Stores, Head(Local(w).todo)).tables
  /\ columns' = DeleteColumn(Stores, Head(Local(w).todo)).columns
  /\ Goto(w, [Local(w) EXCEPT !.pc = "rm_rows"])
  /\ UNCHANGED <<entries, nextCol, calls, last, grants>>

\* Line 144, the queryset evaluated.
RemoveRows(w) ==
  /\ Local(w).pc = "rm_rows"
  /\ Goto(w, [Local(w) EXCEPT
                !.rows = Queryset(entries, Local(w).table),
                !.left = SortedIds(EntriesOf(entries, Local(w).table)),
                !.pc = "rm_save"])
  /\ UNCHANGED <<tables, columns, entries, nextCol, calls, last, grants>>

\* Lines 145-146 for one entry: entry.save() writes the whole document.
RemoveSave(w) ==
  /\ Local(w).pc = "rm_save"
  /\ IF Local(w).left = <<>>
     THEN /\ Goto(w, [Local(w) EXCEPT !.todo = Tail(@), !.pc = "remove"])
          /\ UNCHANGED entries
     ELSE LET e == Head(Local(w).left) IN
          IF Local(w).field_name \notin DOMAIN Local(w).rows[e]
          THEN /\ Raise(w, "key_error")
               /\ UNCHANGED entries
          ELSE /\ entries' = [entries EXCEPT ![e].data =
                                DropKey(Local(w).rows[e], Local(w).field_name)]
               /\ Goto(w, [Local(w) EXCEPT !.left = Tail(@)])
  /\ UNCHANGED <<tables, columns, nextCol, calls, last, grants>>

\* Lines 148-153 for a dict with an id: field_obj is read, the names
\* compared.
FieldGet(w) ==
  /\ Local(w).pc = "fields"
  /\ Local(w).rest # <<>>
  /\ "id" \in Head(Local(w).rest).keys
  /\ LET field == Head(Local(w).rest) IN
     IF field.id \notin DOMAIN columns THEN Raise(w, "not_found")
     ELSE IF "name" \notin field.keys THEN Raise(w, "key_error")
     ELSE Goto(w, [Local(w) EXCEPT
                     !.field_obj = columns[field.id],
                     !.field_name = columns[field.id].name,
                     !.pc = IF columns[field.id].name # field.name
                            THEN "mv_rows" ELSE "col_save"])
  /\ UNCHANGED <<tables, columns, entries, nextCol, calls, last, grants>>

\* Lines 161-165 for a dict without an id.
FieldCreate(w) ==
  /\ Local(w).pc = "fields"
  /\ Local(w).rest # <<>>
  /\ "id" \notin Head(Local(w).rest).keys
  /\ LET field == Head(Local(w).rest) IN
     IF "display_name" \notin field.keys
     THEN /\ Raise(w, "key_error")
          /\ UNCHANGED <<columns, nextCol>>
     ELSE LET db == InsertColumn(Stores,
                      [table |-> Local(w).table,
                       name |-> snake_case(field.display_name),
                       display_name |-> field.display_name,
                       field_type |-> field.field_type])
          IN  /\ columns' = db.columns
              /\ nextCol' = db.nextCol
              /\ Goto(w, [Local(w) EXCEPT !.rest = Tail(@)])
  /\ UNCHANGED <<tables, entries, calls, last, grants>>

\* Line 155, the queryset evaluated.
MoveRows(w) ==
  /\ Local(w).pc = "mv_rows"
  /\ Goto(w, [Local(w) EXCEPT
                !.rows = Queryset(entries, Local(w).table),
                !.left = SortedIds(EntriesOf(entries, Local(w).table)),
                !.pc = "mv_save"])
  /\ UNCHANGED <<tables, columns, entries, nextCol, calls, last, grants>>

\* Lines 156-158 for one entry.
MoveSave(w) ==
  /\ Local(w).pc = "mv_save"
  /\ IF Local(w).left = <<>>
     THEN /\ Goto(w, [Local(w) EXCEPT !.pc = "col_save"])
          /\ UNCHANGED entries
     ELSE LET e == Head(Local(w).left) IN
          IF Local(w).field_name \notin DOMAIN Local(w).rows[e]
          THEN /\ Raise(w, "key_error")
               /\ UNCHANGED entries
          ELSE /\ entries' = [entries EXCEPT ![e].data =
                                MoveKey(Local(w).rows[e], Local(w).field_name,
                                        Head(Local(w).rest).name)]
               /\ Goto(w, [Local(w) EXCEPT !.left = Tail(@)])
  /\ UNCHANGED <<tables, columns, nextCol, calls, last, grants>>

\* Lines 159-160: field_obj.save() updates the row, or inserts it again if
\* it has been deleted since it was read.
ColumnSave(w) ==
  /\ Local(w).pc = "col_save"
  /\ LET field == Head(Local(w).rest) IN
     columns' = [c \in DOMAIN columns \cup {field.id} |->
                   IF c = field.id THEN MergeColumn(Local(w).field_obj, field)
                   ELSE columns[c]]
  /\ Goto(w, [Local(w) EXCEPT !.rest = Tail(@), !.pc = "fields"])
  /\ UNCHANGED <<tables, entries, nextCol, calls, last, grants>>

\* Line 167.
InstanceSave(w) ==
  /\ Local(w).pc = "fields"
  /\ Local(w).rest = <<>>
  /\ tables' = SaveInstance(Stores, Local(w).table, Local(w).data).tables
  /\ Goto(w, [Local(w) EXCEPT !.pc = "done", !.res = "ok"])
  /\ UNCHANGED <<columns, entries, nextCol, calls, last, grants>>

\* Table 1 with columns 1 and 2 and two entries.
ConcSeed ==
  Seed({1}, {}, 1, <<"b">>,
       <<SeedEntry(SeedColumns(1, <<"b">>), 1),
         SeedEntry(SeedColumns(1, <<"b">>), 1)>>)

InitConc ==
  /\ tables = ConcSeed.tables
  /\ columns = ConcSeed.columns
  /\ entries = ConcSeed.entries
  /\ nextCol = ConcSeed.nextCol
  /\ calls = 0
  /\ last = NoRequest
  /\ conc = [init |-> ConcSeed, proc |-> [w \in Workers |-> Idle]]
  /\ grants = SeedGrants(DOMAIN tables)

NextConc ==
  \E w \in Workers :
    \/ Call(w)
    \/ ReadIds(w)
    \/ RemoveGet(w)
    \/ RemoveDelete(w)
    \/ RemoveRows(w)
    \/ RemoveSave(w)
    \/ FieldGet(w)
    \/ FieldCreate(w)
    \/ MoveRows(w)
    \/ MoveSave(w)
    \/ ColumnSave(w)
    \/ InstanceSave(w)

SpecConc == InitConc /\ [][NextConc]_vars

\* --------------------------------------- requests of several users, and
\* reads of the permission label.  The stores at the start are some of
\* Seeds, created by Creator; an administrator may have given u2 any of the
\* four permissions on the stored tables.
PermSeeds ==
  {[tables |-> <<>>, columns |-> <<>>, entries |-> <<>>, nextCol |-> 1],
   Seed({1}, {}, 1, <<"b">>, <<SeedEntry(SeedColumns(1, <<"b">>), 1)>>),
   Seed({1, 2}, {}, 2, <<"b">>, <<SeedEntry(SeedColumns(2, <<"b">>), 1)>>)}

InitPerm ==
  /\ \E seed \in PermSeeds :
       /\ tables = seed.tables
       /\ columns = seed.columns
       /\ entries = seed.entries
       /\ nextCol = seed.nextCol
       /\ \E given \in SUBSET Actions :
            grants = SeedGrants(DOMAIN seed.tables)
                       \cup {[principal |-> "u2", perm |-> a, table |-> t] :
                               a \in given, t \in DOMAIN seed.tables}
  /\ calls = 0
  /\ last = NoRequest
  /\ conc = NoConc

PermCreate ==
  /\ calls < MaxCalls
  /\ \E u \in Users :
     \E data \in {d \in CreatePayloads : Len(d.fields) \in {0, 1}} :
       /\ NewTableId(Stores) \in TableIds
       /\ Commit("create", NewTableId(Stores), data, create(data, Stores), u)

PermReplace ==
  /\ calls < MaxCalls
  /\ \E u \in Users :
     \E t \in DOMAIN tables :
     \E data \in ConcPayloads(Stores, t) :
     \E order \in Perms(old_fields_ids(Stores, t) \ new_fields_ids(data)) :
       Commit("replace", t, data, update(Stores, t, data, FALSE, order), u)

PermPatch ==
  /\ calls < MaxCalls
  /\ \E u \in Users :
     \E t \in DOMAIN tables :
     \E data \in {d \in PatchPayloads(t) : Cardinality(d.keys) \in {0, 1}} :
       Commit("patch", t, data, update(Stores, t, data, TRUE, <<>>), u)

\* A table is read through TableSerializer by a viewer, or with no user in
\* the context.
View ==
  /\ calls < MaxCalls
  /\ \E viewer \in Users \cup {NoUser} :
     \E t \in DOMAIN tables :
       last' = [op |-> "view", user |-> viewer, table |-> t,
                data |-> NoPayload, res |-> "ok", key |-> NoId,
                out |-> get_current_user_permissions(grants, viewer, t)]
  /\ calls' = calls + 1
  /\ UNCHANGED <<tables, columns, entries, nextCol, conc, grants>>

NextPerm == PermCreate \/ PermReplace \/ PermPatch \/ View

SpecPerm == InitPerm /\ [][NextPerm]_vars

\* ------------------------------------------------------------------ claims
\* The request of a step is the one last' records: every action sets last.
ThisTable == last'.table
ThisData == last'.data

\* The submitted columns (indices into the list) that carry the id of a
\* stored column.
WithStoredId(cols, data) ==
  {i \in DOMAIN data.fields :
     "id" \in data.fields[i].keys /\ data.fields[i].id \in DOMAIN cols}

\* The ids a payload submits with a field_type other than the stored one.
Retyped(cols, data) ==
  {data.fields[i].id : i \in {j \in WithStoredId(cols, data) :
     data.fields[j].field_type # cols[data.fields[j].id].field_type}}

\* C1: every full replace of a table with at least one entry that submits a
\* column id with a field_type other than the stored one fails with the
\* validation error keyed by such a column id, and changes no table, column
\* or entry.
TypeChangeRejected ==
  [][(/\ last'.op = "replace"
      /\ EntriesOf(entries, ThisTable) # {}
      /\ Retyped(columns, ThisData) # {})
     => (/\ last'.res = "type_locked"
         /\ last'.key \in Retyped(columns, ThisData)
         /\ UNCHANGED <<tables, columns, entries>>)]_vars

\* C2: while the table that owns a column has an entry, before and after a
\* step, the step leaves the column's field_type as it was.
FieldTypeLocked ==
  [][\A c \in DOMAIN columns \cap DOMAIN columns' :
       (/\ EntriesOf(entries, columns[c].table) # {}
        /\ EntriesOf(entries', columns'[c].table) # {})
       => columns'[c].field_type = columns[c].field_type]_vars

\* The submitted columns of the replaced table whose submitted name is not
\* the stored one.
Renames(cols, t, data) ==
  {i \in WithStoredId(cols, data) :
     /\ data.fields[i].id \in ColumnsOf(cols, t)
     /\ "name" \in data.fields[i].keys
     /\ data.fields[i].name # cols[data.fields[i].id].name}

\* An entry that held old_key holds its value under new_key and no old_key.
Moved(before, after, old_key, new_key) ==
  old_key \in DOMAIN before
  => /\ new_key \in DOMAIN after
     /\ after[new_key] = before[old_key]
     /\ old_key \notin DOMAIN after

\* C3: after a successful full replace, for every renamed column of the
\* call, every entry of the table that held the old key holds its value under
\* the new key and holds the old key no more.
RenameCascade ==
  [][(last'.op = "replace" /\ last'.res = "ok")
     => \A i \in Renames(columns, ThisTable, ThisData) :
          \A e \in EntriesOf(entries, ThisTable) :
            Moved(entries[e].data, entries'[e].data,
                  columns[ThisData.fields[i].id].name,
                  ThisData.fields[i].name)]_vars

\* The columns of the table that the "fields" list of a payload leaves out.
Omitted(cols, t, data) ==
  IF "fields" \in data.keys
  THEN ColumnsOf(cols, t) \ new_fields_ids(data)
  ELSE {}

\* The request got past is_valid().
Accepted(res) == res \in {"ok", "not_found", "key_error"}

\* C4: a full replace that is accepted and leaves out a column of the table
\* removes the column, and removes its key from every entry of the table,
\* whether the entry held the key or not.  (A key of that name that an entry
\* holds afterwards for another column of the table, one renamed to it in
\* the same call, is not counted against the claim.)
DeleteCascade ==
  [][(last'.op = "replace" /\ Accepted(last'.res))
     => \A c \in Omitted(columns, ThisTable, ThisData) :
          /\ c \notin DOMAIN columns'
          /\ \A e \in EntriesOf(entries', ThisTable) :
               columns[c].name \in DOMAIN entries'[e].data
               => columns[c].name \in NamesOf(columns', ThisTable)]_vars

\* Every key of every entry is the internal name of a column of its table.
KeysAreColumns(cols, ents) ==
  \A e \in DOMAIN ents : DOMAIN ents[e].data \subseteq NamesOf(cols, ents[e].table)

\* C5: a successful request on stores whose entry keys are all column names
\* leaves them so, and leaves every value of a renamed column under the
\* column's new name.
EntryKeysFollowColumns ==
  [][(KeysAreColumns(columns, entries) /\ last'.res = "ok")
     => /\ KeysAreColumns(columns', entries')
        /\ \A c \in DOMAIN columns \cap DOMAIN columns' :
             \A e \in EntriesOf(entries, columns[c].table) :
               columns'[c].name # columns[c].name
               => Moved(entries[e].data, entries'[e].data,
                        columns[c].name, columns'[c].name)]_vars


\* C7: a partial patch that supplies default_fields = S on a table whose
\* default-field set is D leaves the set at exactly D \cup S, and no partial
\* patch removes a reference from any table's default-field set.
DefaultFieldsUnion ==
  [][last'.op = "patch"
     => /\ ("default_fields" \in ThisData.keys /\ last'.res = "ok")
           => tables'[ThisTable].default_fields
                = tables[ThisTable].default_fields \cup ThisData.default_fields
        /\ \A t \in DOMAIN tables :
             tables[t].default_fields \subseteq tables'[t].default_fields]_vars

\* A patch added column 2 to a default-field set that held column 1.
DefaultFieldsUnionSeen ==
  /\ last.op = "patch"
  /\ last.res = "ok"
  /\ "default_fields" \in last.data.keys
  /\ last.data.default_fields = {2}
  /\ tables[last.table].default_fields = {1, 2}

\* C8: a partial patch, whatever its payload (a fields list included),
\* leaves the set of columns, every column's attributes and every entry
\* document as they were, and the name and database of every table.
PatchKeepsSchema ==
  [][last'.op = "patch"
     => /\ columns' = columns
        /\ entries' = entries
        /\ nextCol' = nextCol
        /\ DOMAIN tables' = DOMAIN tables
        /\ \A t \in DOMAIN tables :
             /\ tables'[t].name = tables[t].name
             /\ tables'[t].database = tables[t].database]_vars

\* A patch carrying a fields list that renames a column was accepted; the
\* column has its name, and an entry of its table its key.
PatchKeepsSchemaSeen ==
  /\ last.op = "patch"
  /\ last.res = "ok"
  /\ "fields" \in last.data.keys
  /\ last.data.fields # <<>>
  /\ \A i \in DOMAIN last.data.fields :
       /\ last.data.fields[i].id \in DOMAIN columns
       /\ columns[last.data.fields[i].id].name # last.data.fields[i].name
       /\ \E e \in EntriesOf(entries, columns[last.data.fields[i].id].table) :
            columns[last.data.fields[i].id].name \in DOMAIN entries[e].data

\* The column the i-th spec of a create call creates.
CreatedColumn(i) == columns'[nextCol + i - 1]

SpecsOf(data) == IF "fields" \in data.keys THEN data.fields ELSE <<>>

\* C9: a successful create stores exactly one column per submitted spec; a
\* spec without display_name gets the submitted name as display_name and
\* snake_case(name) as internal name, a spec without name gets
\* snake_case(display_name) as internal name and the submitted display_name,
\* and a spec with both has both stored as submitted.
CreateDerivesNames ==
  [][(last'.op = "create" /\ last'.res = "ok")
     => /\ ColumnsOf(columns', ThisTable)
             = {nextCol + i - 1 : i \in DOMAIN SpecsOf(ThisData)}
        /\ nextCol' = nextCol + Len(SpecsOf(ThisData))
        /\ \A c \in DOMAIN columns : columns'[c] = columns[c]
        /\ \A i \in DOMAIN SpecsOf(ThisData) :
             LET s == SpecsOf(ThisData)[i] IN
             /\ "display_name" \notin s.keys
                => /\ CreatedColumn(i).display_name = s.name
                   /\ CreatedColumn(i).name = snake_case(s.name)
             /\ ("name" \notin s.keys /\ "display_name" \in s.keys)
                => /\ CreatedColumn(i).name = snake_case(s.display_name)
                   /\ CreatedColumn(i).display_name = s.display_name
             /\ ("name" \in s.keys /\ "display_name" \in s.keys)
                => /\ CreatedColumn(i).name = s.name
                   /\ CreatedColumn(i).display_name = s.display_name]_vars

\* A create stored two columns, one from a spec with only the name "B " and
\* one from a spec with only the display name "B ": both are named "b".
CreateDerivesNamesSeen ==
  /\ last.op = "create"
  /\ last.res = "ok"
  /\ Len(last.data.fields) = 2
  /\ last.data.fields[1].keys = {"name"}
  /\ last.data.fields[1].name = <<"B", " ">>
  /\ last.data.fields[2].keys = {"display_name"}
  /\ last.data.fields[2].display_name = <<"B", " ">>
  /\ \A c \in ColumnsOf(columns, last.table) :
       /\ columns[c].name = <<"b">>
       /\ columns[c].display_name = <<"B", " ">>
  /\ Cardinality(ColumnsOf(columns, last.table)) = 2

UniquePairs(tbls) ==
  \A t, u \in DOMAIN tbls :
    (tbls[t].name = tbls[u].name /\ tbls[t].database = tbls[u].database)
    => t = u

Taken(tbls, data) ==
  \E t \in DOMAIN tbls :
    tbls[t].name = data.name /\ tbls[t].database = data.database

\* C10: no two tables of a state before or after a request have the same
\* (name, database) pair, and a create whose pair is taken fails validation
\* and creates no table and no column.
NameUniquePerDatabase ==
  [][/\ UniquePairs(tables)
     /\ UniquePairs(tables')
     /\ (last'.op = "create" /\ Taken(tables, ThisData))
        => /\ last'.res = "not_unique"
           /\ tables' = tables
           /\ columns' = columns]_vars

\* A create with a column list and the pair of a stored table was refused.
NameUniquePerDatabaseSeen ==
  /\ last.op = "create"
  /\ last.res = "not_unique"
  /\ Taken(tables, last.data)
  /\ last.data.fields # <<>>


\* The outcomes of a worker's request run from start to end on the stores
\* db with no other request in between.
Replay(db, w) ==
  {update(db, Local(w).table, Local(w).data, FALSE, order) :
     order \in Perms(old_fields_ids(db, Local(w).table)
                       \ new_fields_ids(Local(w).data))}

\* The outcomes of the two requests one after the other, from the stores
\* the workers started on.
Serial(first, second) ==
  UNION {{[first |-> r1.res, second |-> r2.res, db |-> r2.db] :
            r2 \in Replay(r1.db, second)} :
         r1 \in Replay(conc.init, first)}

AllDone == \A w \in Workers : Local(w).pc = "done"

\* C6: nothing serializes two full replaces of a table; only when one worker
\* has finished before the other is called are the stores, and the outcomes
\* of the two calls, those of the two requests run one after the other.  (The
\* final state that fits neither order is ReplaceLostMigration.)
ReplaceSerialWhenApart ==
  conc # NoConc =>
    \A v, w \in Workers :
      (AllDone /\ v \in Local(w).after)
      => \E r \in Serial(v, w) :
           /\ r.db = Stores
           /\ r.first = Local(v).res
           /\ r.second = Local(w).res

\* Both calls returned without an error, and the entry documents are those
\* of neither order of the two requests: a key one call removed or renamed
\* is back in a document the other call saved.
ReplaceLostMigration ==
  /\ conc # NoConc
  /\ AllDone
  /\ \A w \in Workers : Local(w).res = "ok"
  /\ \A v, w \in Workers :
       v # w => \A r \in Serial(v, w) : r.db.entries # entries
  /\ \E e \in DOMAIN entries :
       ~(DOMAIN entries[e].data \subseteq NamesOf(columns, entries[e].table))


\* r lists the internal names of the columns S, one each, in ascending
\* column id.
NamesAscending(r, S) ==
  \E ids \in Perms(S) :
    /\ \A i, j \in DOMAIN ids : i < j => ids[i] < ids[j]
    /\ DOMAIN r = DOMAIN ids
    /\ \A i \in DOMAIN ids : r[i] = columns[ids[i]].name

\* C14: the default fields a read returns are the internal names of the
\* columns of the table's explicit default-field set, in ascending column
\* id, when that set is not empty, and of all the table's columns, in
\* ascending column id, when it is empty.
DefaultFieldsResolved ==
  last.op = "read" =>
    IF tables[last.table].default_fields # {}
    THEN NamesAscending(last.out, tables[last.table].default_fields)
    ELSE NamesAscending(last.out, ColumnsOf(columns, last.table))

\* A read of a table with two columns, of which column 1 is the one default
\* field, returned the name of column 1 alone.
DefaultFieldsResolvedSeen ==
  /\ last.op = "read"
  /\ tables[last.table].default_fields = {1}
  /\ Cardinality(ColumnsOf(columns, last.table)) = 2
  /\ last.out = <<columns[1].name>>


\* The full replace with the two cascades in the other order: the column
\* loop of lines 148-165 first, then the removals of lines 140-146 for the
\* ids that were stored and not resubmitted.
RenamesFirst(db, t, data, order) ==
  IF "fields" \notin data.keys
  THEN Outcome(SaveInstance(db, t, data), "ok", NoId)
  ELSE LET r1 == SaveFields(db, t, data.fields) IN
       IF r1.res # "ok" THEN r1
       ELSE LET r2 == RemoveFields(r1.db, t, order) IN
            IF r2.res # "ok" THEN r2
            ELSE Outcome(SaveInstance(r2.db, t, data), "ok", NoId)

\* The entry documents are the same whichever cascade runs first.
SameEitherOrder(db, t, data) ==
  \A order \in Perms(Omitted(db.columns, t, data)) :
    FullReplace(db, t, data, order).db.entries
      = RenamesFirst(db, t, data, order).db.entries

\* The removed ids and the submitted ids have nothing in common.
RemovedAndMatchedDisjoint(db, t, data) ==
  Omitted(db.columns, t, data) \cap new_fields_ids(data) = {}

\* C15 as stated, for the calls that succeed: for every table state and
\* payload of a full replace, the removed and the matched ids are disjoint
\* and the final entry documents do not depend on which of the two cascades
\* runs first.
CascadeOrderFree ==
  [][(last'.op = "replace" /\ last'.res = "ok")
     => /\ RemovedAndMatchedDisjoint(Stores, ThisTable, ThisData)
        /\ SameEitherOrder(Stores, ThisTable, ThisData)]_vars

\* A submitted dict with the id of a stored column (of this table or of
\* another) gives it the stored name of a column the payload leaves out.
TakesRemovedName(cols, t, data) ==
  \E i \in WithStoredId(cols, data) :
    /\ "name" \in data.fields[i].keys
    /\ data.fields[i].name # cols[data.fields[i].id].name
    /\ \E c \in Omitted(cols, t, data) : data.fields[i].name = cols[c].name

\* C15, amended: the removed and the matched ids of a full replace are
\* disjoint, and when the call succeeds and no submitted dict renames a
\* stored column to the stored name of a removed column, the final entry
\* documents do not depend on which of the two cascades runs first.
CascadeOrderFreeUnlessNameReused ==
  [][(last'.op = "replace" /\ last'.res = "ok")
     => /\ RemovedAndMatchedDisjoint(Stores, ThisTable, ThisData)
        /\ ~TakesRemovedName(columns, ThisTable, ThisData)
           => SameEitherOrder(Stores, ThisTable, ThisData)]_vars


\* A full replace left column 1 out and renamed column 2, and an entry of
\* the table holds the new key alone.
CascadeOrderFreeSeen ==
  /\ last.op = "replace"
  /\ last.res = "ok"
  /\ Len(last.data.fields) = 1
  /\ last.data.fields[1].id = 2
  /\ last.data.fields[1].name = <<"B", " ">>
  /\ ColumnsOf(columns, last.table) = {2}
  /\ columns[2].name = <<"B", " ">>
  /\ \E e \in EntriesOf(entries, last.table) :
       DOMAIN entries[e].data = {<<"B", " ">>}


\* The call passed validation and raised in the loops of lines 140-165.
FailedMidway(res) == res \in {"not_found", "key_error"}

\* The attributes lines 132-134 take from the payload.
RowHas(row, data) ==
  /\ row.name = data.name
  /\ row.database = data.database
  /\ row.active = data.active

\* The columns and entries are those the statements run before the
\* exception wrote: nothing is rolled back.
KeepsWritesSoFar(db, t, data) ==
  \E order \in Perms(Omitted(db.columns, t, data)) :
    LET r1 == RemoveFields(db, t, order)
        r2 == IF r1.res = "ok" THEN SaveFields(r1.db, t, data.fields) ELSE r1
    IN  /\ r2.res = last'.res
        /\ columns' = r2.db.columns
        /\ entries' = r2.db.entries

\* C16 as stated: a full replace that fails during the column
\* reconciliation keeps what was written before the failure, the table row
\* with the submitted attributes included.
FailedReplaceKeepsNewRow ==
  [][(last'.op = "replace" /\ FailedMidway(last'.res))
     => /\ KeepsWritesSoFar(Stores, ThisTable, ThisData)
        /\ RowHas(tables'[ThisTable], ThisData)]_vars

\* C16, amended: a full replace that fails during the column reconciliation
\* keeps the columns and entries written before the failure, and leaves the
\* name, database and active flag of the table row as stored before the
\* call: the row is written by the final save alone.
FailedReplaceKeepsOldRow ==
  [][(last'.op = "replace" /\ FailedMidway(last'.res))
     => /\ KeepsWritesSoFar(Stores, ThisTable, ThisData)
        /\ RowHas(tables'[ThisTable], tables[ThisTable])]_vars

\* A full replace with another table name that left column 2 out failed on
\* the second entry: column 2 is gone, the first entry has lost its key, the
\* second is as it was, and the table has its old name.
FailedReplaceSeen ==
  /\ last.op = "replace"
  /\ last.res = "key_error"
  /\ last.data.name # tables[last.table].name
  /\ ColumnsOf(columns, last.table) = {1}
  /\ new_fields_ids(last.data) = {1}
  /\ DOMAIN entries = {1, 2}
  /\ \A e \in DOMAIN entries : entries[e].table = last.table
  /\ entries[1].data = [n \in {<<"a">>} |-> 1]
  /\ entries[2].data = [n \in {<<"a">>} |-> 2]


\* The submitted column dicts without an id, and the place of the i-th dict
\* among them.
WithoutId(data) ==
  {i \in DOMAIN data.fields : "id" \notin data.fields[i].keys}

RankWithoutId(data, i) == Cardinality({j \in WithoutId(data) : j <= i})

\* Every dict with an id resubmits a stored column of the table as it is, and
\* no column of the table is left out.
OnlyAdds(cols, t, data) ==
  /\ Omitted(cols, t, data) = {}
  /\ \A i \in DOMAIN data.fields \ WithoutId(data) :
       /\ data.fields[i].id \in ColumnsOf(cols, t)
       /\ MergeColumn(cols[data.fields[i].id], data.fields[i])
            = cols[data.fields[i].id]

\* C17: a full replace that succeeds stores exactly one new column per
\* submitted dict without an id, owned by the table being replaced, named
\* snake_case(display_name) whatever name the dict carries; and when the
\* payload does nothing else, no entry document and no stored column
\* changes.
ReplaceAddsColumns ==
  [][(last'.op = "replace" /\ last'.res = "ok")
     => /\ DOMAIN columns' \ DOMAIN columns
             = {nextCol + RankWithoutId(ThisData, i) - 1 :
                  i \in WithoutId(ThisData)}
        /\ \A i \in WithoutId(ThisData) :
             columns'[nextCol + RankWithoutId(ThisData, i) - 1]
               = [table |-> ThisTable,
                  name |-> snake_case(ThisData.fields[i].display_name),
                  display_name |-> ThisData.fields[i].display_name,
                  field_type |-> ThisData.fields[i].field_type]
        /\ OnlyAdds(columns, ThisTable, ThisData)
           => /\ entries' = entries
              /\ \A c \in DOMAIN columns : columns'[c] = columns[c]]_vars

\* A full replace of a table with an entry stored a new column from a dict
\* that carried a name of its own: the column has the name derived from the
\* display name, not the submitted one.
ReplaceAddsColumnsSeen ==
  /\ last.op = "replace"
  /\ last.res = "ok"
  /\ EntriesOf(entries, last.table) # {}
  /\ \E i \in WithoutId(last.data) :
       /\ "name" \in last.data.fields[i].keys
       /\ \E c \in ColumnsOf(columns, last.table) :
            /\ c = nextCol - 1
            /\ columns[c].display_name = last.data.fields[i].display_name
            /\ columns[c].name = snake_case(last.data.fields[i].display_name)
            /\ columns[c].name # last.data.fields[i].name
            /\ \A e \in EntriesOf(entries, last.table) :
                 columns[c].name \in DOMAIN entries[e].data
                 => \E d \in ColumnsOf(columns, last.table) \ {c} :
                      columns[d].name = columns[c].name


\* C18: after a partial patch that succeeds, the filters of the table are
\* the supplied blob if one is supplied and it is not empty, and the stored
\* ones otherwise; the active flag is the supplied one whenever one is
\* supplied, FALSE included, and the stored one otherwise.
PatchFiltersAndActive ==
  [][(last'.op = "patch" /\ last'.res = "ok")
     => /\ tables'[ThisTable].filters
             = IF "filters" \in ThisData.keys /\ ThisData.filters # NoFilters
               THEN ThisData.filters
               ELSE tables[ThisTable].filters
        /\ tables'[ThisTable].active
             = IF "active" \in ThisData.keys THEN ThisData.active
               ELSE tables[ThisTable].active]_vars

\* A patch supplied an empty filters blob and active = FALSE: the table has
\* a stored blob still, and is not active.
PatchFiltersAndActiveSeen ==
  /\ last.op = "patch"
  /\ last.res = "ok"
  /\ {"filters", "active"} \subseteq last.data.keys
  /\ last.data.filters = NoFilters
  /\ last.data.active = FALSE
  /\ tables[last.table].filters \in FilterBlobs
  /\ tables[last.table].active = FALSE


\* C19: a full replace of table T, whatever its payload (one that carries
\* the id of a column of another table included), leaves every column and
\* every entry document of every other table as it was.
ReplaceTouchesOwnTableOnly ==
  [][last'.op = "replace"
     => /\ \A c \in DOMAIN columns :
             columns[c].table # ThisTable
             => c \in DOMAIN columns' /\ columns'[c] = columns[c]
        /\ \A e \in DOMAIN entries :
             entries[e].table # ThisTable => entries'[e] = entries[e]]_vars


\* C20: in every state, every reference in the default-field set of a table
\* is to a stored column that the same table owns.
DefaultFieldsOwned ==
  \A t \in DOMAIN tables :
    \A c \in tables[t].default_fields :
      c \in DOMAIN columns /\ columns[c].table = t


\* The one label of a permission set: change_table before update_content
\* before view_table before none.
Label(P) ==
  CASE "change_table" \in P -> "change_table"
    [] "change_table" \notin P /\ "update_content" \in P -> "update_content"
    [] {"change_table", "update_content"} \cap P = {} /\ "view_table" \in P
         -> "view_table"
    [] {"change_table", "update_content", "view_table"} \cap P = {} -> ""

\* C11: the permissions a read returns are a list of one label, the one of
\* highest priority in the viewer's permission set on the table, and the
\* empty label when there is no viewer.
OneLabelByPriority ==
  last.op = "view" =>
    last.out = <<IF last.user = NoUser THEN ""
                 ELSE Label(get_perms(grants, last.user, last.table))>>

\* A viewer who holds view_table, delete_table and update_content on a
\* table, and not change_table, was shown update_content.
OneLabelByPrioritySeen ==
  /\ last.op = "view"
  /\ last.user = "u2"
  /\ get_perms(grants, "u2", last.table)
       = {"view_table", "delete_table", "update_content"}
  /\ last.out = <<"update_content">>

\* The grants a create by user u stores on table t.
CreatorGrants(u, t) ==
  {[principal |-> p, perm |-> a, table |-> t] :
     p \in {u, AdminGroup},
     a \in {"view_table", "change_table", "delete_table", "update_content"}}

\* C12: a create that succeeds assigns the four permissions on the new
\* table to the creator and to the administrators group, and the new table
\* has no other grant.
CreateSeedsGrants ==
  [][(last'.op = "create" /\ last'.res = "ok")
     => /\ grants' = grants \cup CreatorGrants(last'.user, ThisTable)
        /\ {g \in grants' : g.table = ThisTable}
             = CreatorGrants(last'.user, ThisTable)]_vars

\* u2, who is no administrator, created a table with a column: u2 and the
\* group hold the four permissions on it, and u1 holds them through the
\* group alone.
CreateSeedsGrantsSeen ==
  /\ last.op = "create"
  /\ last.res = "ok"
  /\ last.user = "u2"
  /\ last.data.fields # <<>>
  /\ get_perms(grants, "u2", last.table) = Actions
  /\ \A g \in grants : g.table = last.table => g.principal # "u1"

\* C13: no full replace and no partial patch adds a grant, so the user of
\* the request holds the same permissions on the table after it as before.
GrantsSeededOnce ==
  [][last'.op \in {"replace", "patch"}
     => /\ grants' = grants
        /\ get_perms(grants', last'.user, ThisTable)
             = get_perms(grants, last'.user, ThisTable)]_vars

====
